---- MODULE Spec2Model ----
(***************************************************************************)
(* Model of losses.py: the loss terms and the composite MyLoss.            *)
(*                                                                         *)
(* Numbers.  Tensors hold fixed-point values: a pixel value v stands for   *)
(* v / data_range, so 1.0 is data_range (1000) and eps = 1e-3 is 1.  A     *)
(* square root is the integer square root and a mean is the floored        *)
(* quotient of the sum by the element count.                               *)
(*                                                                         *)
(* Tensors.  A batch is a record [shape |-> <<N, C, H, W>>, px |-> f]      *)
(* with f a function on the 0-based indices <<n, c, i, j>>.                *)
(*                                                                         *)
(* Calls.  Every call returns a record: [err |-> "None", val |-> v] when   *)
(* it returns v, [err |-> E] when the exception E propagates out of it.    *)
(***************************************************************************)
EXTENDS Integers, Sequences, FiniteSets, TLC

VARIABLES
    op,         \* the method called last, "init" before the first call
    args,       \* the arguments of that call
    ret,        \* what that call returned or raised
    locals,     \* the locals that call bound
    stdout,     \* the records printed so far
    vgg,        \* the VGGLoss object
    last_mode,  \* the mode VGGLoss.train was last called with
    ncalls      \* the number of MyLoss.forward calls made

vars == <<op, args, ret, locals, stdout, vgg, last_mode, ncalls>>

(***************************************************************************)
(* Bounds of the model                                                     *)
(***************************************************************************)
MaxSide == 3
MaxSlope == 1
MaxEpoch == 3
MaxCalls == 2
MaxShift == 2
MaxScale == 2

(***************************************************************************)
(* Program constants                                                       *)
(***************************************************************************)
data_range == 1000
eps == 1
mean_val == 700
patch_size == 16
inv_ssim_weight == 100

(***************************************************************************)
(* Input batches.  A descriptor [shape, k0, kc, ks] names the batch whose  *)
(* pixel <<n, c, i, j>> is Palette[(k0 + kc*c + ks*(i + 2*j)) mod 4]:      *)
(* ks = 0 gives a flat-colour image, kc = ks = 0 a uniform grey one.       *)
(***************************************************************************)
Palette == <<0, 300, 700, 1000>>

Idx(shape) == (0..(shape[1]-1)) \X (0..(shape[2]-1)) \X (0..(shape[3]-1)) \X (0..(shape[4]-1))

Numel(shape) == shape[1] * shape[2] * shape[3] * shape[4]

Batch(d) ==
    [shape |-> d.shape,
     px    |-> [ix \in Idx(d.shape) |->
                  Palette[((d.k0 + d.kc * ix[2] + d.ks * (ix[3] + 2 * ix[4])) % Len(Palette)) + 1]]]

Shapes == {<<1, c, h, w>> : c \in {1, 3}, h \in 1..MaxSide, w \in 1..MaxSide}

Patterns == [k0 : 0..(Len(Palette)-1), kc : 0..1, ks : 0..MaxSlope]

Desc(shape, p) == [shape |-> shape, k0 |-> p.k0, kc |-> p.kc, ks |-> p.ks]

\* the batch after (or equal to) the descriptor's one in the palette
Brighter(p, d) == [p EXCEPT !.k0 = (p.k0 + d) % Len(Palette)]

(***************************************************************************)
(* Python and torch primitives                                             *)
(***************************************************************************)
Ok(v) == [err |-> "None", val |-> v]

Raise(e) == [err |-> e]

\* a call that raised before it bound a local
NoLocals == [none |-> TRUE]

Abs(a) == IF a < 0 THEN -a ELSE a

Max(a, b) == IF a < b THEN b ELSE a

\* floor of the square root of n, n >= 0: Newton's iteration from a power of
\* two that is not below the root
RECURSIVE SqrtNewton(_, _)
SqrtNewton(n, x) ==
    LET y == (x + n \div x) \div 2
    IN  IF y >= x THEN x ELSE SqrtNewton(n, y)

SqrtStart(n) ==
    IF n < 65536
    THEN (IF n < 256 THEN (IF n < 16 THEN 4 ELSE 16) ELSE (IF n < 4096 THEN 64 ELSE 256))
    ELSE (IF n < 16777216
          THEN (IF n < 1048576 THEN 1024 ELSE 4096)
          ELSE (IF n < 268435456 THEN 16384 ELSE 46341))

sqrt(n) == IF n = 0 THEN 0 ELSE SqrtNewton(n, SqrtStart(n))

\* the 4-tuple index of the k-th element of a tensor of this shape, row-major
Unravel(k, shape) ==
    << k \div (shape[2] * shape[3] * shape[4]),
       (k \div (shape[3] * shape[4])) % shape[2],
       (k \div shape[4]) % shape[3],
       k % shape[4] >>

RECURSIVE SumFirst(_, _)
SumFirst(t, k) ==
    IF k = 0 THEN 0 ELSE t.px[Unravel(k - 1, t.shape)] + SumFirst(t, k - 1)

\* torch.sum and torch.mean over all elements
TSum(t) == SumFirst(t, Numel(t.shape))

TMean(t) == TSum(t) \div Numel(t.shape)

\* broadcasting of two shapes: each axis equal, or 1 on one side
Broadcastable(s1, s2) == \A a \in 1..4 : s1[a] = s2[a] \/ s1[a] = 1 \/ s2[a] = 1

BroadcastShape(s1, s2) == [a \in 1..4 |-> Max(s1[a], s2[a])]

\* the element of t that position ix of the broadcast result reads
At(t, ix) ==
    t.px[<<IF t.shape[1] = 1 THEN 0 ELSE ix[1], IF t.shape[2] = 1 THEN 0 ELSE ix[2],
           IF t.shape[3] = 1 THEN 0 ELSE ix[3], IF t.shape[4] = 1 THEN 0 ELSE ix[4]>>]

\* x - y
Sub(x, y) ==
    LET s == BroadcastShape(x.shape, y.shape)
    IN  [shape |-> s, px |-> [ix \in Idx(s) |-> At(x, ix) - At(y, ix)]]

(***************************************************************************)
(* CharbonnierLoss                                                         *)
(***************************************************************************)
\* the variant left in the comment of line 53: sqrt(diff*diff + eps)
CharbonnierLoss_value_sum_eps(diff) ==
    TMean([shape |-> diff.shape,
           px |-> [ix \in Idx(diff.shape) |->
                     sqrt(diff.px[ix] * diff.px[ix] + eps * data_range)]])

\* loss = torch.mean(torch.sqrt((diff * diff) + (self.eps*self.eps)))
CharbonnierLoss_value(diff) ==
    TMean([shape |-> diff.shape,
           px |-> [ix \in Idx(diff.shape) |->
                     sqrt(diff.px[ix] * diff.px[ix] + eps * eps)]])

CharbonnierLoss_forward(x, y) ==
    IF ~Broadcastable(x.shape, y.shape) THEN Raise("RuntimeError")
    ELSE Ok(CharbonnierLoss_value(Sub(x, y)))

(***************************************************************************)
(* Name lookup.  Python raises AttributeError when a name is looked up in  *)
(* a namespace that does not hold it.                                      *)
(***************************************************************************)
\* the functions of the torch package among the names losses.py uses
torch == {"pow", "sum", "mean", "sqrt", "tensor", "cat", "FloatTensor", "split", "roll", "abs"}

\* what ExposureLoss.__init__ sets on the object, and nn.Module's forward and training
ExposureLoss_attributes == {"patch_size", "mean_val", "forward", "training"}

(***************************************************************************)
(* ExposureLoss                                                            *)
(***************************************************************************)
\* x = torch.mean(x, 1, keepdim=True)
ChannelMean(x) ==
    LET s == <<x.shape[1], 1, x.shape[3], x.shape[4]>>
    IN  [shape |-> s,
         px |-> [ix \in Idx(s) |->
                   TMean([shape |-> <<1, x.shape[2], 1, 1>>,
                          px |-> [c \in Idx(<<1, x.shape[2], 1, 1>>) |->
                                    x.px[<<ix[1], c[2], ix[3], ix[4]>>]]])]]

\* F.avg_pool2d(x, patch_size): kernel and stride patch_size, whole tiles only
AvgPool(x, p) ==
    LET s == <<x.shape[1], x.shape[2], x.shape[3] \div p, x.shape[4] \div p>>
    IN  [shape |-> s,
         px |-> [ix \in Idx(s) |->
                   TMean([shape |-> <<1, 1, p, p>>,
                          px |-> [q \in Idx(<<1, 1, p, p>>) |->
                                    x.px[<<ix[1], ix[2], ix[3] * p + q[3], ix[4] * p + q[4]>>]]])]]

\* d = torch.mean(torch.pow(mean - mean_val, 2))
ExposureLoss_value(mean, m) ==
    TMean([shape |-> mean.shape,
           px |-> [ix \in Idx(mean.shape) |->
                     ((mean.px[ix] - m) * (mean.px[ix] - m)) \div data_range]])

\* __init__(self, patch_size=16, mean_val=0.7)
ExposureLoss_init(p, m) == [patch_size |-> p, mean_val |-> m]

\* line 171 reads self.pool, which __init__ never sets
ExposureLoss_forward(self, x) ==
    LET lum == ChannelMean(x)
    IN  IF "pool" \notin ExposureLoss_attributes THEN Raise("AttributeError")
        ELSE IF x.shape[3] < self.patch_size \/ x.shape[4] < self.patch_size
             THEN Raise("RuntimeError")
        ELSE Ok(ExposureLoss_value(AvgPool(lum, self.patch_size), self.mean_val))

(***************************************************************************)
(* ColorLoss                                                               *)
(***************************************************************************)
\* torch.mean(x, [2, 3], keepdim=True)
SpatialMean(x) ==
    LET s == <<x.shape[1], x.shape[2], 1, 1>>
    IN  [shape |-> s,
         px |-> [ix \in Idx(s) |->
                   TMean([shape |-> <<1, 1, x.shape[3], x.shape[4]>>,
                          px |-> [q \in Idx(<<1, 1, x.shape[3], x.shape[4]>>) |->
                                    x.px[<<ix[1], ix[2], q[3], q[4]>>]]])]]

\* the mean that a grey-world deviation would use: over the channels as well
GreyMean(x) ==
    LET s == <<x.shape[1], x.shape[2], 1, 1>>
    IN  [shape |-> s, px |-> [ix \in Idx(s) |-> TMean(x)]]

\* k = mean over the pixels of sqrt(Dr^2 + Db^2 + Dg^2), D the deviation of a
\* channel's pixel from m
ColorLoss_deviation(x, m) ==
    LET s == <<x.shape[1], 1, x.shape[3], x.shape[4]>>
        D(ix, c) == x.px[<<ix[1], c, ix[3], ix[4]>>] - m.px[<<ix[1], c, 0, 0>>]
    IN  TMean([shape |-> s,
               px |-> [ix \in Idx(s) |->
                         sqrt(D(ix, 0) * D(ix, 0) + D(ix, 2) * D(ix, 2) + D(ix, 1) * D(ix, 1))]])

ColorLoss_value_grey(x) == ColorLoss_deviation(x, GreyMean(x))

ColorLoss_value(x) == ColorLoss_deviation(x, SpatialMean(x))

\* r, g, b = torch.split(x, 1, dim=1) unpacks exactly three channels
ColorLoss_forward(x) ==
    IF x.shape[2] # 3 THEN Raise("ValueError")
    ELSE Ok(ColorLoss_value(x))

\* s * x
Scale(s, x) == [shape |-> x.shape, px |-> [ix \in Idx(x.shape) |-> s * x.px[ix]]]

(***************************************************************************)
(* ColorLoss1                                                              *)
(***************************************************************************)
\* line 206 unpacks three channels of x; line 207 looks up torch.spiit; the
\* products and quotient of lines 216-221 broadcast; line 224 looks up
\* torch.arcos, which torch does not hold either, so no call returns a value
ColorLoss1_forward(x, y) ==
    IF x.shape[2] # 3 THEN Raise("ValueError")
    ELSE IF "spiit" \notin torch THEN Raise("AttributeError")
    ELSE IF y.shape[2] # 3 THEN Raise("ValueError")
    ELSE IF ~Broadcastable(x.shape, y.shape) THEN Raise("RuntimeError")
    ELSE Raise("AttributeError")

(***************************************************************************)
(* UnionLoss                                                               *)
(***************************************************************************)
shifts == <<2, 4, 8, 16, 32, 64, 128>>

\* torch.roll(t, s, dim): element i of the result is element (i - s) mod size
\* of t along dim (dim counted from 0)
roll(t, s, dim) ==
    [shape |-> t.shape,
     px |-> [ix \in Idx(t.shape) |->
               t.px[[ix EXCEPT ![dim + 1] = (ix[dim + 1] - s) % t.shape[dim + 1]]]]]

RECURSIVE AbsRollSum(_, _, _, _)
AbsRollSum(t, dim, ix, n) ==
    IF n = 0 THEN 0
    ELSE Abs(roll(t, shifts[n], dim).px[ix] - t.px[ix]) + AbsRollSum(t, dim, ix, n - 1)

\* torch.abs(roll2 - t) + ... + torch.abs(roll128 - t)
ShiftAgg(t, dim) ==
    [shape |-> t.shape, px |-> [ix \in Idx(t.shape) |-> AbsRollSum(t, dim, ix, Len(shifts))]]

\* a slip that adds the two aggregated maps instead of subtracting them
UnionLoss_value_added(x1, y1, x2, y2) ==
    LET s == BroadcastShape(x1.shape, y1.shape)
    IN  TMean([shape |-> s,
               px |-> [ix \in Idx(s) |->
                         Abs(At(x1, ix) + At(y1, ix)) \div Len(shifts)
                         + Abs(At(x2, ix) + At(y2, ix)) \div Len(shifts)]]) \div 2

\* k = torch.mean(torch.abs(x_ - y_)/7 + torch.abs(x__ - y__)/7)/2
UnionLoss_value(x1, y1, x2, y2) ==
    LET s == BroadcastShape(x1.shape, y1.shape)
    IN  TMean([shape |-> s,
               px |-> [ix \in Idx(s) |->
                         Abs(At(x1, ix) - At(y1, ix)) \div Len(shifts)
                         + Abs(At(x2, ix) - At(y2, ix)) \div Len(shifts)]]) \div 2

UnionLoss_forward(x, y) ==
    IF ~Broadcastable(x.shape, y.shape) THEN Raise("RuntimeError")
    ELSE Ok(UnionLoss_value(ShiftAgg(x, 2), ShiftAgg(y, 2), ShiftAgg(x, 3), ShiftAgg(y, 3)))

(***************************************************************************)
(* SSIM of pytorch_msssim, as MyLoss constructs it: data_range 1.0,        *)
(* size_average, nonnegative_ssim, the default K = (0.01, 0.03) and an     *)
(* 11-tap window.  An axis shorter than the window is not filtered, so for *)
(* the batches of the model the local means are the pixels themselves and  *)
(* the local variances and covariance are 0.                               *)
(***************************************************************************)
\* C1 = (K1 * data_range)^2 with K1 = 0.01
SSIM_C1 == (data_range \div 100) * (data_range \div 100)

\* ssim_map = (2*mu1*mu2 + C1) / (mu1^2 + mu2^2 + C1) * cs_map, cs_map = C2 / C2
SSIM_map(x, y) ==
    [shape |-> x.shape,
     px |-> [ix \in Idx(x.shape) |->
               (data_range * (2 * x.px[ix] * y.px[ix] + SSIM_C1))
                   \div (x.px[ix] * x.px[ix] + y.px[ix] * y.px[ix] + SSIM_C1)]]

\* the mean of the map per image and channel, relu (nonnegative_ssim), mean
SSIM_value(x, y) ==
    LET m == SpatialMean(SSIM_map(x, y))
    IN  TMean([shape |-> m.shape, px |-> [ix \in Idx(m.shape) |-> Max(m.px[ix], 0)]])

\* ssim() raises ValueError when the two shapes differ
SSIM_forward(x, y) ==
    IF x.shape # y.shape THEN Raise("ValueError")
    ELSE Ok(SSIM_value(x, y))

(***************************************************************************)
(* MyLoss.  Its loss is in units of 1 / (inv_ssim_weight * data_range).    *)
(***************************************************************************)
\* line 320, left in a comment: loss = l1_loss + 80 * ssim_loss + ...
MyLoss_loss_weighted(l1_loss, ssim_loss) ==
    inv_ssim_weight * l1_loss + 80 * inv_ssim_weight * ssim_loss

\* loss = l1_loss + 0.01 * ssim_loss
MyLoss_loss(l1_loss, ssim_loss) == inv_ssim_weight * l1_loss + ssim_loss

\* a cadence counted from epoch 0
PrintDue_from_zero(epoch) == epoch % 3 = 0

\* if(epoch%3==1)
PrintDue(epoch) == epoch % 3 = 1

\* the call's result, its locals, and what it prints
MyLoss_forward(x, y, epoch) ==
    LET l1 == CharbonnierLoss_forward(x, y)
        sm == SSIM_forward(x, y)
    IN  IF l1.err # "None" THEN [ret |-> l1, locals |-> NoLocals, out |-> <<>>]
        ELSE IF sm.err # "None"
             THEN [ret |-> sm, locals |-> [l1_loss |-> l1.val], out |-> <<>>]
        ELSE LET ssim_loss == data_range - sm.val
                 rec == [l1_loss |-> l1.val, ssim_loss |-> ssim_loss]
             IN  [ret    |-> Ok(MyLoss_loss(l1.val, ssim_loss)),
                  locals |-> rec,
                  out    |-> IF PrintDue(epoch) THEN <<rec>> ELSE <<>>]

(***************************************************************************)
(* VGGLoss.  The object holds shift, its own training flag and the inner   *)
(* model, of which the model keeps the training flag and the               *)
(* requires_grad flag of each parameter tensor.  The features the model    *)
(* computes are not modelled.                                              *)
(***************************************************************************)
\* the weight and the bias of the convolutions 0, 2, 5, 7 of vgg16.features[:9]
Parameters == {0, 2, 5, 7} \X {"weight", "bias"}

\* a freshly built torchvision model: training mode, trainable parameters
Pretrained == [training |-> TRUE, requires_grad |-> [q \in Parameters |-> TRUE]]

\* nn.Module.eval() and nn.Module.requires_grad_(flag)
Module_eval(m) == [m EXCEPT !.training = FALSE]

Module_requires_grad_(m, flag) == [m EXCEPT !.requires_grad = [q \in Parameters |-> flag]]

\* __init__: nn.Module.__init__ sets training = True
VGGLoss_init(shift) ==
    [shift    |-> shift,
     training |-> TRUE,
     model    |-> Module_requires_grad_(Module_eval(Pretrained), FALSE)]

\* nn.Module.train, which VGGLoss overrides: it sets the mode of the children too
VGGLoss_train_children(self, mode) ==
    [self EXCEPT !.training = mode, !.model.training = mode]

\* def train(self, mode=True): self.training = mode
VGGLoss_train(self, mode) == [self EXCEPT !.training = mode]

\* a shift applied whenever shift is nonzero and the target is no feature map
ShiftApplied_any_mode(self, target_is_features) ==
    ~target_is_features /\ self.shift # 0

\* forward pads and crops on the else branch of target_is_features,
\* if self.shift and self.training
ShiftApplied(self, target_is_features) ==
    ~target_is_features /\ self.shift # 0 /\ self.training

\* the top-left corners transforms.RandomCrop can draw in a batch padded by
\* shift on every side
CropCorners(self) == (0..(2 * self.shift)) \X (0..(2 * self.shift))

(***************************************************************************)
(* The loss terms as pure functions: the inputs are drawn at the start,    *)
(* one call of one term is made on them.                                   *)
(***************************************************************************)
\* shapes a second operand is tried with: the same shape, one channel, one
\* column (both broadcast against the first), and another height
PartnerShapes(s) ==
    {s, <<1, 1, s[3], s[4]>>, <<1, s[2], s[3], 1>>, <<1, s[2], (s[3] % MaxSide) + 1, s[4]>>}

InitTerms ==
    /\ op = "init"
    /\ \E sx \in Shapes, p \in Patterns, d \in 0..1 :
         \E sy \in PartnerShapes(sx) :
            args = [x |-> Desc(sx, p), y |-> Desc(sy, Brighter(p, d))]
    /\ ret = Ok(0)
    /\ locals = NoLocals
    /\ stdout = <<>>
    /\ vgg = VGGLoss_init(0)
    /\ last_mode = TRUE
    /\ ncalls = 0

CharbonnierCall ==
    /\ op = "init"
    /\ op' = "CharbonnierLoss.forward"
    /\ ret' = CharbonnierLoss_forward(Batch(args.x), Batch(args.y))
    /\ UNCHANGED <<args, locals, stdout, vgg, last_mode, ncalls>>

\* on an object built with the default patch size or with a smaller one
ExposureCall ==
    /\ op = "init"
    /\ \E p \in {1, 2, patch_size} :
         /\ op' = "ExposureLoss.forward"
         /\ args' = [x |-> args.x, self |-> ExposureLoss_init(p, mean_val)]
         /\ ret' = ExposureLoss_forward(args'.self, Batch(args.x))
    /\ UNCHANGED <<locals, stdout, vgg, last_mode, ncalls>>

ColorCall ==
    /\ op = "init"
    /\ op' = "ColorLoss.forward"
    /\ ret' = ColorLoss_forward(Batch(args.x))
    /\ UNCHANGED <<args, locals, stdout, vgg, last_mode, ncalls>>

Color1Call ==
    /\ op = "init"
    /\ op' = "ColorLoss1.forward"
    /\ ret' = ColorLoss1_forward(Batch(args.x), Batch(args.y))
    /\ UNCHANGED <<args, locals, stdout, vgg, last_mode, ncalls>>

UnionCall ==
    /\ op = "init"
    /\ op' = "UnionLoss.forward"
    /\ ret' = UnionLoss_forward(Batch(args.x), Batch(args.y))
    /\ UNCHANGED <<args, locals, stdout, vgg, last_mode, ncalls>>

NextTerms == CharbonnierCall \/ ExposureCall \/ ColorCall \/ Color1Call \/ UnionCall

SpecTerms == InitTerms /\ [][NextTerms]_vars

(***************************************************************************)
(* A sequence of MyLoss.forward calls on one object, writing to stdout.    *)
(***************************************************************************)
InitMyLoss ==
    /\ op = "init"
    /\ args = [none |-> TRUE]
    /\ ret = Ok(0)
    /\ locals = NoLocals
    /\ stdout = <<>>
    /\ vgg = VGGLoss_init(0)
    /\ last_mode = TRUE
    /\ ncalls = 0

\* 3-channel batches of at least 2 x 2 pixels against a batch of the same
\* shape or of one channel
MyLossCall ==
    /\ ncalls < MaxCalls
    /\ \E sx \in {<<1, 3, 2, MaxSide>>},
          p \in {q \in Patterns : q.kc = 1 /\ q.ks = 1 /\ q.k0 < 3},
          d \in 0..1, epoch \in 0..MaxEpoch :
         \E sy \in {sx, <<1, 1, sx[3], sx[4]>>} :
            LET dx == Desc(sx, p)
                dy == Desc(sy, Brighter(p, d))
                r  == MyLoss_forward(Batch(dx), Batch(dy), epoch)
            IN  /\ op' = "MyLoss.forward"
                /\ args' = [x |-> dx, y |-> dy, epoch |-> epoch]
                /\ ret' = r.ret
                /\ locals' = r.locals
                /\ stdout' = stdout \o r.out
                /\ ncalls' = ncalls + 1
                /\ UNCHANGED <<vgg, last_mode>>

NextMyLoss == MyLossCall

SpecMyLoss == InitMyLoss /\ [][NextMyLoss]_vars

(***************************************************************************)
(* The calls on one VGGLoss object.  last_mode records the mode the object *)
(* was last put in: the argument of the last train call, nn.Module's       *)
(* initial True before the first.                                          *)
(***************************************************************************)
ImageShapes == {<<1, 3, h, MaxSide>> : h \in 1..MaxSide}

InitVGG ==
    /\ op = "init"
    /\ args = [none |-> TRUE]
    /\ ret = Ok(0)
    /\ locals = NoLocals
    /\ stdout = <<>>
    /\ \E shift \in 0..MaxShift : vgg = VGGLoss_init(shift)
    /\ last_mode = TRUE
    /\ ncalls = 0

VGGTrain ==
    \E mode \in BOOLEAN :
        /\ op' = "VGGLoss.train"
        /\ args' = [mode |-> mode]
        /\ vgg' = VGGLoss_train(vgg, mode)
        /\ last_mode' = mode
        /\ ret' = Ok("None")
        /\ locals' = NoLocals
        /\ UNCHANGED <<stdout, ncalls>>

VGGGetFeatures ==
    \E s \in ImageShapes :
        /\ op' = "VGGLoss.get_features"
        /\ args' = [input |-> s]
        /\ ret' = Ok("features")
        /\ locals' = NoLocals
        /\ UNCHANGED <<vgg, last_mode, stdout, ncalls>>

VGGForward ==
    \E s \in ImageShapes, target_is_features \in BOOLEAN :
        /\ op' = "VGGLoss.forward"
        /\ args' = [input |-> s, target_is_features |-> target_is_features]
        /\ IF ShiftApplied(vgg, target_is_features)
           THEN \E corner \in CropCorners(vgg) :
                    locals' = [shifted |-> TRUE, padded |-> <<s[3] + 2 * vgg.shift, s[4] + 2 * vgg.shift>>,
                               corner |-> corner]
           ELSE locals' = [shifted |-> FALSE]
        /\ ret' = Ok("mse_loss")
        /\ UNCHANGED <<vgg, last_mode, stdout, ncalls>>

NextVGG == VGGTrain \/ VGGGetFeatures \/ VGGForward

SpecVGG == InitVGG /\ [][NextVGG]_vars

(***************************************************************************)
(* Properties of the loss terms, checked under SpecTerms                   *)
(***************************************************************************)
X == Batch(args.x)

Y == Batch(args.y)

SameShape == args.x.shape = args.y.shape

SameBatch == args.x = args.y

\* each channel of x is constant over the pixels
FlatColour(x) == \A ix \in Idx(x.shape) : x.px[ix] = x.px[<<ix[1], ix[2], 0, 0>>]

\* the channel-averaged luminance of x is mean_val at every pixel
UniformLuminance(x) ==
    \A ix \in Idx(x.shape) :
        x.px[<<ix[1], 0, ix[3], ix[4]>>] + x.px[<<ix[1], 1, ix[3], ix[4]>>]
            + x.px[<<ix[1], 2, ix[3], ix[4]>>] = 3 * mean_val

\* every pixel's RGB vector is nonzero
NonzeroVectors(x) ==
    \A ix \in Idx(x.shape) : \E c \in 0..2 : x.px[<<ix[1], c, ix[3], ix[4]>>] # 0

\* C3: a binary loss called with batches of different shapes fails with an
\* error and returns no value; it never broadcasts one operand silently.
C3_MismatchReported ==
    (op \in {"CharbonnierLoss.forward", "MyLoss.forward"} /\ ~SameShape) => ret.err # "None"

\* C4 as stated: the Charbonnier loss is >= 0 and, for identical arguments,
\* at most eps^2 (ret.val / data_range <= (eps / data_range)^2).
C4_BoundedByEpsSquared ==
    (op = "CharbonnierLoss.forward" /\ SameShape) =>
        /\ ret.err = "None"
        /\ ret.val >= 0
        /\ (SameBatch => ret.val * data_range <= eps * eps)

\* C4 as amended: the Charbonnier loss of equal-shape batches is returned
\* and is >= 0, and for identical arguments it is eps, not eps^2.
C4_NonNegativeAndEps ==
    (op = "CharbonnierLoss.forward" /\ SameShape) =>
        /\ ret.err = "None"
        /\ ret.val >= 0
        /\ (SameBatch => ret.val = eps)

C4_Witness ==
    /\ op = "CharbonnierLoss.forward"
    /\ SameBatch
    /\ Numel(args.x.shape) > 1
    /\ ret = Ok(eps)

\* C5: UnionLoss.forward(x, x) is 0 for every batch x, whatever its height
\* and width, the cyclic shifts wrapping around the image.
C5_UnionOfEqualIsZero ==
    (op = "UnionLoss.forward" /\ SameBatch) => ret = Ok(0)

\* a textured batch of height MaxSide, whose aggregated shift maps are not zero
C5_Witness ==
    /\ op = "UnionLoss.forward"
    /\ SameBatch
    /\ args.x.shape[3] = MaxSide
    /\ TSum(ShiftAgg(X, 2)) > 0
    /\ TSum(ShiftAgg(X, 3)) > 0
    /\ ret = Ok(0)

\* C6: for a batch of uniform luminance mean_val that holds at least one
\* patch_size x patch_size tile, ExposureLoss.forward completes without an
\* error and returns 0.
C6_UniformExposureIsZero ==
    (/\ op = "ExposureLoss.forward"
     /\ args.x.shape[2] = 3
     /\ args.x.shape[3] >= args.self.patch_size
     /\ args.x.shape[4] >= args.self.patch_size
     /\ UniformLuminance(X)) => ret = Ok(0)

\* C7: ColorLoss1.forward returns a value for every pair of 3-channel
\* batches of one shape, never an error, and 0 for identical batches whose
\* RGB vectors are all nonzero.
C7_AngleOfEqualIsZero ==
    (op = "ColorLoss1.forward" /\ args.x.shape[2] = 3 /\ SameShape) =>
        /\ ret.err = "None"
        /\ ((SameBatch /\ NonzeroVectors(X)) => ret.val = 0)

\* C8 as stated: ColorLoss.forward(s * x) equals ColorLoss.forward(x) for
\* every 3-channel batch x and positive scale s.
C8_ScaleInvariant ==
    (op = "ColorLoss.forward" /\ args.x.shape[2] = 3) =>
        \A s \in 1..MaxScale : ColorLoss_forward(Scale(s, X)) = ret

\* C8 as amended: ColorLoss.forward of a 3-channel batch is proportional to
\* the brightness, ColorLoss(s * x) = s * ColorLoss(x) up to the rounding of
\* the fixed-point square roots and means; it is the same at every
\* brightness where it is 0, as for a flat-colour image.
C8_ScalesWithBrightness ==
    (op = "ColorLoss.forward" /\ args.x.shape[2] = 3) =>
        /\ ret.err = "None"
        /\ \A s \in 1..MaxScale :
              LET r == ColorLoss_forward(Scale(s, X))
              IN  /\ r.err = "None"
                  /\ (FlatColour(X) => (ret.val = 0 /\ r.val = 0))
                  /\ s * ret.val - 2 * s <= r.val
                  /\ r.val <= s * ret.val + 2 * s

\* a textured batch, whose loss is positive and grows with the brightness
C8_Witness ==
    /\ op = "ColorLoss.forward"
    /\ args.x.shape[2] = 3
    /\ ~FlatColour(X)
    /\ ret.err = "None"
    /\ ret.val > 2 * MaxScale
    /\ ColorLoss_forward(Scale(MaxScale, X)).val > ret.val

(***************************************************************************)
(* Properties of MyLoss, checked under SpecMyLoss                          *)
(***************************************************************************)
\* C1: for equal-shape 3-channel batches MyLoss.forward returns
\* l1 + 0.01 * (1 - ssim), l1 the Charbonnier term and ssim the similarity
\* of (x, y), whatever the epoch and whether or not it prints.
C1_LossIsL1PlusWeightedSsim ==
    (op = "MyLoss.forward" /\ SameShape) =>
        /\ ret = Ok(inv_ssim_weight * CharbonnierLoss_forward(X, Y).val
                      + (data_range - SSIM_forward(X, Y).val))
        /\ \A e \in 0..MaxEpoch : MyLoss_forward(X, Y, e).ret = ret

\* a printing call on different batches, with both terms positive
C1_Witness ==
    /\ op = "MyLoss.forward"
    /\ SameShape
    /\ args.epoch % 3 = 1
    /\ Len(stdout) > 0
    /\ ret.err = "None"
    /\ locals.l1_loss > eps
    /\ locals.ssim_loss > 0
    /\ ret.val > inv_ssim_weight * locals.l1_loss

\* C2: a completed MyLoss.forward call appends exactly one record to
\* stdout, holding that call's l1 and similarity sub-losses, when
\* epoch mod 3 = 1, and appends nothing otherwise.
C2_PrintsWhenEpochMod3Is1 ==
    [][(op' = "MyLoss.forward" /\ ncalls' = ncalls + 1) =>
          IF SameShape' /\ args'.epoch % 3 = 1
          THEN stdout' = Append(stdout,
                                [l1_loss   |-> CharbonnierLoss_forward(X', Y').val,
                                 ssim_loss |-> data_range - SSIM_forward(X', Y').val])
          ELSE stdout' = stdout]_vars

\* two calls, the first printed and the second, at another epoch, did not
C2_Witness ==
    /\ op = "MyLoss.forward"
    /\ ncalls = 2
    /\ SameShape
    /\ args.epoch % 3 # 1
    /\ ret.err = "None"
    /\ Len(stdout) = 1
    /\ stdout[1].ssim_loss > 0

(***************************************************************************)
(* Properties of VGGLoss, checked under SpecVGG                            *)
(***************************************************************************)
\* C9: a forward call shifts its input if and only if shift is nonzero, the
\* object is in training mode as last set by train (True when train was
\* never called) and target_is_features is false.
C9_ShiftOnlyWhenTraining ==
    op = "VGGLoss.forward" =>
        (locals.shifted <=> (vgg.shift # 0 /\ last_mode /\ ~args.target_is_features))

\* a call with images as target on an object of nonzero shift that
\* train(False) put in evaluation mode: it does not shift
C9_Witness ==
    /\ op = "VGGLoss.forward"
    /\ vgg.shift = MaxShift
    /\ ~args.target_is_features
    /\ ~last_mode
    /\ ~vgg.training
    /\ ~locals.shifted

\* C10: the inner model stays in evaluation mode with every parameter's
\* requires_grad False, from construction on and across train, get_features
\* and forward calls; a train call changes the wrapper's training flag only.
ModelFrozen ==
    /\ ~vgg.model.training
    /\ \A q \in Parameters : ~vgg.model.requires_grad[q]

C10_ExtractorFrozen ==
    /\ ModelFrozen
    /\ [][/\ ModelFrozen'
          /\ (op' = "VGGLoss.train" => vgg' = [vgg EXCEPT !.training = args'.mode])
          /\ vgg'.model = vgg.model /\ vgg'.shift = vgg.shift]_vars

\* train(True) called on an object that train(False) had put in evaluation mode
C10_Witness ==
    /\ op = "VGGLoss.train"
    /\ args.mode
    /\ vgg.training
    /\ ModelFrozen

====
